---------------------------- MODULE Spec2Model ----------------------------
(***************************************************************************)
(* A model of the Database session facade of bissakov/sql-python:          *)
(* Database.connect / execute / commit / rollback (src/source/database.py) *)
(* and the earlier revision of the same class (src/src/database.py),       *)
(* together with the error classification that maps the driver's failure   *)
(* text onto the typed errors of src/source/errors.py.                     *)
(*                                                                         *)
(* Text is modelled as a sequence of one-character strings, so that        *)
(* str.lower(), str.strip(), the substring test `in` and re.search are     *)
(* computed, character by character, as Python computes them.              *)
(* Optional[T] is a sequence of length at most one: None is << >>.         *)
(***************************************************************************)
EXTENDS Naturals, Sequences, FiniteSets, TLC

(***************************************************************************)
(* Bounds of the model.                                                    *)
(***************************************************************************)
\* engines a session may build (successful create_engine calls)
MaxEngines == 2
\* transient connections the driver may open during the session
MaxConns == 3

(***************************************************************************)
(* Text constants of the program.                                          *)
(***************************************************************************)
\* src/source/database.py:68  'password authentication failed'
AuthPattern ==
  <<"p","a","s","s","w","o","r","d"," ","a","u","t","h","e","n","t","i","c","a","t","i","o","n"," ","f","a","i","l","e","d">>
\* src/source/database.py:96  'syntax error'
SyntaxPattern ==
  <<"s","y","n","t","a","x"," ","e","r","r","o","r">>
\* src/source/database.py:98  'no such table'
NoTablePattern ==
  <<"n","o"," ","s","u","c","h"," ","t","a","b","l","e">>
\* src/source/database.py:99  the literal part of r'no such table: (.+)'
NoTableRegexPrefix ==
  <<"n","o"," ","s","u","c","h"," ","t","a","b","l","e",":"," ">>
\* src/source/errors.py:7
NotEstablishedMsg ==
  <<"C","o","n","n","e","c","t","i","o","n"," ","n","o","t"," ","e","s","t","a","b","l","i","s","h","e","d","."," ","C","a","l","l"," ","t","h","e"," ","c","o","n","n","e","c","t"," ","m","e","t","h","o","d"," ","f","i","r","s","t",".">>
\* src/source/errors.py:28  f'No such table "{table_name}" in database "{db_name}"'
NoSuchTableFmt1 ==
  <<"N","o"," ","s","u","c","h"," ","t","a","b","l","e"," ","\"">>
NoSuchTableFmt2 ==
  <<"\""," ","i","n"," ","d","a","t","a","b","a","s","e"," ","\"">>
NoSuchTableFmt3 ==
  <<"\"">>
\* src/source/errors.py:39  f'Password authentication failed for user "{username}"'
WrongPasswordFmt1 ==
  <<"P","a","s","s","w","o","r","d"," ","a","u","t","h","e","n","t","i","c","a","t","i","o","n"," ","f","a","i","l","e","d"," ","f","o","r"," ","u","s","e","r"," ","\"">>
WrongPasswordFmt2 ==
  <<"\"">>
\* str(None)
NoneStr ==
  <<"N","o","n","e">>

(***************************************************************************)
(* Inputs: the texts a driver failure may carry (str(e)), and the values   *)
(* a caller may put in a Config.                                           *)
(***************************************************************************)
MsgAuth ==
  <<"F","A","T","A","L",":"," "," ","p","a","s","s","w","o","r","d"," ","a","u","t","h","e","n","t","i","c","a","t","i","o","n"," ","f","a","i","l","e","d"," ","f","o","r"," ","u","s","e","r"," ","\"","p","o","s","t","g","r","e","s","\"">>
MsgAuthUpper ==
  <<"F","A","T","A","L",":"," ","P","a","s","s","w","o","r","d"," ","A","u","t","h","e","n","t","i","c","a","t","i","o","n"," ","F","a","i","l","e","d">>
MsgSyntax ==
  <<"n","e","a","r"," ","\"","S","E","L","E","K","T","\"",":"," ","s","y","n","t","a","x"," ","e","r","r","o","r">>
MsgSyntaxUpper ==
  <<" ","S","y","n","t","a","x"," ","E","r","r","o","r"," ","a","t"," ","o","r"," ","n","e","a","r"," ","S","E","L","E","K","T","\n">>
MsgNoTable ==
  <<"n","o"," ","s","u","c","h"," ","t","a","b","l","e",":"," ","C","u","s","t","o","m","e","r","s">>
MsgNoTableSql ==
  <<"N","o"," ","S","u","c","h"," ","T","a","b","l","e",":"," ","t","1"," ","\n","[","S","Q","L",":"," ","S","E","L","E","C","T"," ","1","]","\n">>
MsgNoTableBare ==
  <<"n","o"," ","s","u","c","h"," ","t","a","b","l","e">>
MsgBoth ==
  <<"s","y","n","t","a","x"," ","e","r","r","o","r",";"," ","n","o"," ","s","u","c","h"," ","t","a","b","l","e",":"," ","t","2">>
MsgOther ==
  <<"u","n","a","b","l","e"," ","t","o"," ","o","p","e","n"," ","d","a","t","a","b","a","s","e"," ","f","i","l","e">>
DbChinook ==
  <<"c","h","i","n","o","o","k",".","d","b">>
DbRental ==
  <<"d","v","d","r","e","n","t","a","l">>
UserPostgres ==
  <<"p","o","s","t","g","r","e","s">>
PassWord ==
  <<"p","a","s","s">>
HostLocal ==
  <<"1","2","7",".","0",".","0",".","1">>

SchemeSqlite ==
  <<"s","q","l","i","t","e",":","/","/","/">>
SchemePostgresql ==
  <<"p","o","s","t","g","r","e","s","q","l",":","/","/">>
SchemeMysql ==
  <<"m","y","s","q","l","+","p","y","m","y","s","q","l",":","/","/">>
SchemeMssql ==
  <<"m","s","s","q","l","+","p","y","m","s","s","q","l",":","/","/">>
Colon ==
  <<":">>
At ==
  <<"@">>
Slash ==
  <<"/">>
MsgBadUrl ==
  <<"C","o","u","l","d"," ","n","o","t"," ","p","a","r","s","e"," ","S","Q","L","A","l","c","h","e","m","y"," ","U","R","L">>
UnsupportedFmt ==
  <<"U","n","s","u","p","p","o","r","t","e","d"," ","d","b","t","y","p","e",":"," ">>
NotExistFmt1 ==
  <<"S","Q","L","i","t","e"," ","d","a","t","a","b","a","s","e"," ">>
NotExistFmt2 ==
  <<" ","d","o","e","s"," ","n","o","t"," ","e","x","i","s","t",".">>
DbUnknown ==
  <<"u","n","k","n","o","w","n","_","d","b">>
TypeSqlite ==
  <<"s","q","l","i","t","e">>
TypePostgresql ==
  <<"p","o","s","t","g","r","e","s","q","l">>
TypeMysql ==
  <<"m","y","s","q","l">>
TypeMssql ==
  <<"m","s","s","q","l">>
TypeOracle ==
  <<"o","r","a","c","l","e">>
TypeSqliteCapital ==
  <<"S","q","l","i","t","e">>
MsgNoTableAccent ==
  <<"n","o"," ","s","u","c","h"," ","t","a","b","l","e",":"," ","É","l","È","v","e","s","">>

Messages ==
  { MsgAuth, MsgAuthUpper, MsgSyntax, MsgSyntaxUpper, MsgNoTable,
    MsgNoTableSql, MsgNoTableBare, MsgNoTableAccent, MsgBoth, MsgOther }

None == << >>
Some(x) == << x >>

(***************************************************************************)
(* Python's text operations.                                               *)
(***************************************************************************)
\* the cased letters of the texts (Latin-1): A-Z and the accented capitals
\* U+00C0..U+00DE (without the sign U+00D7), with their lower-case forms
UpperChars ==
  <<"A","B","C","D","E","F","G","H","I","J","K","L","M",
    "N","O","P","Q","R","S","T","U","V","W","X","Y","Z",
    "À","Á","Â","Ã","Ä","Å","Æ","Ç","È","É","Ê","Ë","Ì","Í","Î",
    "Ï","Ð","Ñ","Ò","Ó","Ô","Õ","Ö","Ø","Ù","Ú","Û","Ü","Ý","Þ">>
LowerChars ==
  <<"a","b","c","d","e","f","g","h","i","j","k","l","m",
    "n","o","p","q","r","s","t","u","v","w","x","y","z",
    "à","á","â","ã","ä","å","æ","ç","è","é","ê","ë","ì","í","î",
    "ï","ð","ñ","ò","ó","ô","õ","ö","ø","ù","ú","û","ü","ý","þ">>

LowerChar(c) ==
  IF \E i \in DOMAIN UpperChars : UpperChars[i] = c
    THEN LowerChars[CHOOSE i \in DOMAIN UpperChars : UpperChars[i] = c]
    ELSE c

\* str.lower()
Lower(s) == [i \in 1..Len(s) |-> LowerChar(s[i])]

\* str.isspace() of a character (Latin-1): tab, newline, vertical tab, form
\* feed, carriage return, U+001C..U+001F, space, U+0085, U+00A0
IsSpace(c) ==
  c \in {"\t", "\n", "", "\f", "\r", "", "", "", "", " ",
         "", " "}

\* str.strip()
Strip(s) ==
  LET keep == {i \in 1..Len(s) : ~IsSpace(s[i])}
  IN  IF keep = {} THEN << >>
      ELSE LET first == CHOOSE i \in keep : \A j \in keep : i <= j
               last  == CHOOSE i \in keep : \A j \in keep : j <= i
           IN  SubSeq(s, first, last)

\* pat in s
Contains(pat, s) ==
  \E i \in 1..(Len(s) + 1) :
     /\ i + Len(pat) - 1 <= Len(s)
     /\ SubSeq(s, i, i + Len(pat) - 1) = pat

\* re.search(r'no such table: (.+)', s): the positions where the pattern
\* matches (the literal prefix followed by at least one character that is
\* not a newline); re.search takes the leftmost.
MatchStarts(s) ==
  {i \in 1..Len(s) :
     /\ i + Len(NoTableRegexPrefix) <= Len(s)
     /\ SubSeq(s, i, i + Len(NoTableRegexPrefix) - 1) = NoTableRegexPrefix
     /\ s[i + Len(NoTableRegexPrefix)] # "\n"}

\* match.group(1) if match else '': the greedy (.+) runs to the end of the line
\* ExtractTable taking match.group(0), the whole match
ExtractTableGroup0(s) ==
  IF MatchStarts(s) = {} THEN << >>
  ELSE LET i     == CHOOSE k \in MatchStarts(s) : \A j \in MatchStarts(s) : k <= j
           stops == {k \in i..Len(s) : s[k] = "\n"}
           to    == IF stops = {} THEN Len(s)
                    ELSE (CHOOSE k \in stops : \A j \in stops : k <= j) - 1
       IN  SubSeq(s, i, to)

ExtractTable(s) ==
  IF MatchStarts(s) = {} THEN << >>
  ELSE LET i     == CHOOSE k \in MatchStarts(s) : \A j \in MatchStarts(s) : k <= j
           from  == i + Len(NoTableRegexPrefix)
           stops == {k \in from..Len(s) : s[k] = "\n"}
           to    == IF stops = {} THEN Len(s)
                    ELSE (CHOOSE k \in stops : \A j \in stops : k <= j) - 1
       IN  SubSeq(s, from, to)

\* str(x) of an Optional[str] inside an f-string or str.format
FormatOpt(x) == IF x = None THEN NoneStr ELSE x[1]

(***************************************************************************)
(* The typed errors (src/source/errors.py).  An exception is a record of   *)
(* its class and of str(e).                                                *)
(***************************************************************************)
ConnectionNotEstablishedError ==
  [type |-> "ConnectionNotEstablishedError", msg |-> NotEstablishedMsg]

WrongConfigError(text) == [type |-> "WrongConfigError", msg |-> text]

SQLSyntaxError(error_msg) == [type |-> "SQLSyntaxError", msg |-> error_msg]

NoSuchTableError(db_name, table_name) ==
  [type |-> "NoSuchTableError",
   msg  |-> NoSuchTableFmt1 \o table_name \o NoSuchTableFmt2 \o db_name
              \o NoSuchTableFmt3]

WrongPasswordError(username) ==
  [type |-> "WrongPasswordError",
   msg  |-> WrongPasswordFmt1 \o FormatOpt(username) \o WrongPasswordFmt2]

(***************************************************************************)
(* The driver (SQLAlchemy and the DBAPI under it), the external            *)
(* collaborator: every call to it either succeeds or raises one of these.  *)
(***************************************************************************)
SqliteOperational == "sqlite3.OperationalError"
SaOperational     == "sqlalchemy.exc.OperationalError"
SaProgramming     == "sqlalchemy.exc.ProgrammingError"

DriverExcTypes == {SqliteOperational, SaOperational, SaProgramming}

DriverFailures == [type : DriverExcTypes, msg : Messages]

\* what create_engine raises on a descriptor it cannot use
CreateFailures == {[type |-> "sqlalchemy.exc.ArgumentError", msg |-> MsgBadUrl]}

\* what a statement may produce: the cursor's keys() and fetchall()
ResultSets ==
  { [keys |-> <<"id", "name">>, data |-> << <<"1", "ann">>, <<"2", "bob">> >>],
    [keys |-> <<"id">>,         data |-> << >>] }

\* the statements a caller submits (opaque to the session)
Statements == {"SELECT * FROM customers", "SELEKT * FROM customers"}

(***************************************************************************)
(* Config and Credentials (src/source/structs.py).                         *)
(***************************************************************************)
\* ['sqlite', 'postgresql', 'mysql', 'mssql']
SupportedTypes == {TypeSqlite, TypePostgresql, TypeMysql, TypeMssql}

\* dbtype values no dialect is known for
UnsupportedTypes == {TypeOracle, TypeSqliteCapital}

\* os.path.exists(dbname): the stores present on disk
ExistingStores == {DbChinook}

Port == 5432

CredentialsValues ==
  { [user |-> None, password |-> None],
    [user |-> Some(UserPostgres), password |-> Some(PassWord)] }

ConfigValues ==
  [dbtype      : SupportedTypes \cup UnsupportedTypes,
   dbname      : {DbChinook, DbRental, DbUnknown},
   credentials : CredentialsValues,
   host        : {None, Some(HostLocal)},
   port        : {None, Some(Port)}]

\* f'{self.dbtype}': the text of a str is the str
TypeText(t) == t

Returned(v) == [kind |-> "return", val |-> v]
Raised(e)   == [kind |-> "raise", val |-> e]

\* ConfigPostInit looking at the store first, whatever the dbtype
ConfigPostInitStoreFirst(cfg) ==
  IF cfg.dbname \notin ExistingStores
    THEN Raised(WrongConfigError(NotExistFmt1 \o cfg.dbname \o NotExistFmt2))
  ELSE IF cfg.dbtype \notin SupportedTypes
    THEN Raised(WrongConfigError(UnsupportedFmt \o TypeText(cfg.dbtype)))
  ELSE Returned(None)

\* ConfigPostInit without the store test
ConfigPostInitNoStore(cfg) ==
  IF cfg.dbtype \notin SupportedTypes
    THEN Raised(WrongConfigError(UnsupportedFmt \o TypeText(cfg.dbtype)))
  ELSE Returned(None)

\* Config.__post_init__: returns, or raises WrongConfigError
ConfigPostInit(cfg) ==
  IF cfg.dbtype \notin SupportedTypes
    THEN Raised(WrongConfigError(UnsupportedFmt \o TypeText(cfg.dbtype)))
  ELSE IF cfg.dbtype = TypeSqlite /\ cfg.dbname \notin ExistingStores
    THEN Raised(WrongConfigError(NotExistFmt1 \o cfg.dbname \o NotExistFmt2))
  ELSE Returned(None)

(***************************************************************************)
(* The dialect resolver: DATABASE_ENGINES and str.format.                  *)
(***************************************************************************)
Lit(t) == <<"lit", t>>
Fld(f) == <<"fld", f>>

NetworkTemplate(scheme) ==
  << Lit(scheme), Fld("user"), Lit(Colon), Fld("password"), Lit(At),
     Fld("host"), Lit(Colon), Fld("port"), Lit(Slash), Fld("dbname") >>

DATABASE_ENGINES ==
  (TypeSqlite     :> << Lit(SchemeSqlite), Fld("dbname") >>) @@
  (TypePostgresql :> NetworkTemplate(SchemePostgresql)) @@
  (TypeMysql      :> NetworkTemplate(SchemeMysql)) @@
  (TypeMssql      :> NetworkTemplate(SchemeMssql))

Digit(d) == <<"0","1","2","3","4","5","6","7","8","9">>[d + 1]

RECURSIVE IntText(_)
\* str(n) of a non-negative int
IntText(n) == IF n < 10 THEN << Digit(n) >>
              ELSE IntText(n \div 10) \o << Digit(n % 10) >>

FormatPort(p) == IF p = None THEN NoneStr ELSE IntText(p[1])

\* the keyword arguments of engine_template.format(...)
FormatArgs(cfg) ==
  [user     |-> FormatOpt(cfg.credentials.user),
   password |-> FormatOpt(cfg.credentials.password),
   host     |-> FormatOpt(cfg.host),
   port     |-> FormatPort(cfg.port),
   dbname   |-> cfg.dbname]

RECURSIVE Format(_, _)
\* str.format: every {field} replaced by its argument
Format(template, args) ==
  IF template = << >> THEN << >>
  ELSE LET part == Head(template)
       IN  (IF part[1] = "lit" THEN part[2] ELSE args[part[2]])
             \o Format(Tail(template), args)

ConnectionString(cfg) == Format(DATABASE_ENGINES[cfg.dbtype], FormatArgs(cfg))

(***************************************************************************)
(* State.                                                                  *)
(***************************************************************************)
VARIABLES
  config,     \* self.config
  engine,     \* self.engine: NoEngine (None) or the handle create_engine built
  pc,         \* the position of the call in progress; "idle" between calls
  op,         \* the operation called last
  sql,        \* execute's argument
  conn,       \* the transient connection of the call in progress
  exc,        \* the failure the driver raised in this call, if any
  cursor,     \* execute's local `result`
  columns,    \* execute's local `columns`
  rows,       \* execute's local `rows`
  ret,        \* what the last completed call gave its caller
  open,       \* driver: the transient connections now open
  nconn,      \* driver: transient connections opened so far
  nengine,    \* driver: engines built so far
  io,         \* calls to the driver made by the call in progress (or last)
  called,     \* history: connect() has been called
  connected,  \* history: a connect() call has returned normally
  did,        \* driver: the last call this call made on a connection
  args        \* the arguments of a Credentials/Config under construction

vars == << config, engine, pc, op, sql, conn, exc, cursor, columns, rows,
           ret, open, nconn, nengine, io, called, connected, did, args >>

NoEngine == [id |-> 0, url |-> << >>]
NoConn   == 0
NoExc    == [type |-> "none", msg |-> << >>]
NoCursor == [keys |-> << >>, data |-> << >>, of |-> NoConn]
NoUse    == [conn |-> NoConn, what |-> "none"]
NoArgs   == << >>

\* QueryResult(rows, columns)
QueryResult(r, c) == [rows |-> r, columns |-> c]

\* The configurations a session of src/source can be built with: those
\* Config.__post_init__ accepts.
SessionConfigs ==
  {c \in ConfigValues :
     /\ ConfigPostInit(c).kind = "return"
     /\ c.dbname # DbUnknown
     /\ (c.host = None) = (c.port = None)
     /\ (c.host = None) => (c.credentials.user = None)}

\* Database.__init__
InitSession ==
  /\ engine = NoEngine
  /\ pc = "idle"
  /\ op = "none"
  /\ sql = None
  /\ conn = NoConn
  /\ exc = NoExc
  /\ cursor = NoCursor
  /\ columns = None
  /\ rows = None
  /\ ret = [op |-> "none", kind |-> "none", val |-> None]
  /\ open = {}
  /\ nconn = 0
  /\ nengine = 0
  /\ io = 0
  /\ called = FALSE
  /\ connected = FALSE
  /\ did = NoUse

Init == config \in SessionConfigs /\ args = NoArgs /\ InitSession

\* entering a call: its locals are fresh
Enter(name, arg) ==
  /\ op' = name
  /\ sql' = arg
  /\ conn' = NoConn
  /\ exc' = NoExc
  /\ cursor' = NoCursor
  /\ columns' = None
  /\ rows' = None
  /\ io' = 0
  /\ did' = NoUse

\* while a call runs its caller has nothing yet
InProgress(name) == [op |-> name, kind |-> "pending", val |-> None]

\* leaving a call: the caller gets `outcome`
Leave(name, outcome) ==
  /\ pc' = "idle"
  /\ ret' = [op |-> name, kind |-> outcome.kind, val |-> outcome.val]

\* `if self.engine is None`
NotEstablishedNever(e) == FALSE
NotEstablished(e) == e = NoEngine

\* the scoped connection's __exit__: the connection is closed
ReleaseLeak(conns, c) == conns
Release(conns, c) == conns \ {c}

\* OpenConn handing out the connection opened last, when there is one
OpenConnReuse ==
  /\ nconn' = IF nconn = 0 THEN 1 ELSE nconn
  /\ conn' = nconn'
  /\ open' = open \cup {conn'}
  /\ io' = io + 1

\* engine.connect() succeeds: the driver opens a transient connection
OpenConn ==
  /\ nconn' = nconn + 1
  /\ conn' = nconn + 1
  /\ open' = open \cup {nconn + 1}
  /\ io' = io + 1

(***************************************************************************)
(* Database.connect (src/source/database.py:50-69).                        *)
(***************************************************************************)
ConnectCall ==
  /\ pc = "idle" /\ nengine < MaxEngines /\ nconn < MaxConns
  /\ Enter("connect", None)
  /\ pc' = "connect_create"
  /\ ret' = InProgress("connect")
  /\ called' = TRUE
  /\ UNCHANGED << args, config, engine, open, nconn, nengine, connected >>

\* self.engine = create_engine(connection_string)
AssignEngineDropped(old, new) == old
AssignEngineOnce(old, new) == IF old = NoEngine THEN new ELSE old
AssignEngine(old, new) == new

ConnectCreate ==
  /\ pc = "connect_create"
  /\ io' = io + 1
  /\ \/ /\ engine' = AssignEngine(engine,
                        [id |-> nengine + 1, url |-> ConnectionString(config)])
        /\ nengine' = nengine + 1
        /\ pc' = "connect_probe"
        /\ UNCHANGED << exc, ret, op >>
     \/ \E e \in CreateFailures :
          /\ exc' = e
          /\ UNCHANGED << op, engine, nengine >>
          /\ Leave("connect", Raised(e))
  /\ UNCHANGED << args, did, config, sql, conn, cursor, columns, rows, open, nconn,
                  called, connected >>

\* with self.engine.connect() as _:
ConnectProbe ==
  /\ pc = "connect_probe"
  /\ \/ /\ OpenConn
        /\ pc' = "connect_probe_exit"
        /\ UNCHANGED exc
     \/ \E e \in DriverFailures :
          /\ exc' = e
          /\ io' = io + 1
          /\ pc' = "connect_except"
          /\ UNCHANGED << conn, open, nconn >>
  /\ UNCHANGED << args, did, config, engine, op, sql, cursor, columns, rows, ret,
                  nengine, called, connected >>

\* pass; the with block releases the probe connection
ConnectProbeExit ==
  /\ pc = "connect_probe_exit"
  /\ open' = Release(open, conn)
  /\ pc' = "connect_return"
  /\ UNCHANGED << args, did, config, engine, op, sql, conn, exc, cursor, columns, rows,
                  ret, nconn, nengine, io, called, connected >>

ConnectReturn ==
  /\ pc = "connect_return"
  /\ UNCHANGED op
  /\ Leave("connect", Returned(None))
  /\ connected' = TRUE
  /\ UNCHANGED << args, did, config, engine, sql, conn, exc, cursor, columns, rows,
                  open, nconn, nengine, io, called >>

\* error_msg = str(e).lower().strip(); 'password authentication failed' in error_msg
IsAuthFailureCaseSensitive(msg) == Contains(AuthPattern, Strip(msg))
IsAuthFailure(msg) == Contains(AuthPattern, Strip(Lower(msg)))

\* ConnectOutcome reporting the unrecognised probe failure as a
\* configuration error
ConnectOutcomeAsConfig(e, cfg) ==
  IF e.type = SaOperational
    THEN IF IsAuthFailure(e.msg)
           THEN Raised(WrongPasswordError(cfg.credentials.user))
           ELSE Raised(WrongConfigError(e.msg))
    ELSE Raised(e)

\* the except clause of connect: what the caller gets when the probe raised e
ConnectOutcome(e, cfg) ==
  IF e.type = SaOperational
    THEN IF IsAuthFailure(e.msg)
           THEN Raised(WrongPasswordError(cfg.credentials.user))
           ELSE Returned(None)
    ELSE Raised(e)

\* ConnectOutcome, tabulated over the failures and the configurations (a
\* table worked out once: @@ gives the function with its values in place)
ConnectOutcomes ==
  [e \in DriverFailures, cfg \in ConfigValues |-> ConnectOutcome(e, cfg)] @@ << >>

ConnectExcept ==
  /\ pc = "connect_except"
  /\ UNCHANGED op
  /\ Leave("connect", ConnectOutcomes[exc, config])
  /\ connected' = (connected \/ ConnectOutcomes[exc, config].kind = "return")
  /\ UNCHANGED << args, did, config, engine, sql, conn, exc, cursor, columns, rows,
                  open, nconn, nengine, io, called >>

(***************************************************************************)
(* Database.execute (src/source/database.py:71-103).                       *)
(***************************************************************************)
ExecuteCall ==
  /\ pc = "idle" /\ nconn < MaxConns
  /\ \E s \in Statements :
       /\ Enter("execute", Some(s))
       /\ IF NotEstablished(engine)
            THEN Leave("execute", Raised(ConnectionNotEstablishedError))
            ELSE pc' = "exec_open" /\ ret' = InProgress(op')
  /\ UNCHANGED << args, config, engine, open, nconn, nengine, called, connected >>

\* with self.engine.connect() as conn:
ExecOpen ==
  /\ pc = "exec_open"
  /\ \/ /\ OpenConn
        /\ pc' = "exec_run"
        /\ UNCHANGED exc
     \/ \E e \in DriverFailures :
          /\ exc' = e
          /\ io' = io + 1
          /\ pc' = "exec_except"
          /\ UNCHANGED << conn, open, nconn >>
  /\ UNCHANGED << args, did, config, engine, op, sql, cursor, columns, rows, ret,
                  nengine, called, connected >>

\* result = conn.execute(text(sql))
ExecRun ==
  /\ pc = "exec_run"
  /\ io' = io + 1
  /\ did' = [conn |-> conn, what |-> "execute"]
  /\ \/ \E r \in ResultSets :
          /\ cursor' = [keys |-> r.keys, data |-> r.data, of |-> conn]
          /\ pc' = "exec_keys"
          /\ UNCHANGED exc
     \/ \E e \in DriverFailures :
          /\ exc' = e
          /\ pc' = "exec_exit"
          /\ UNCHANGED cursor
  /\ UNCHANGED << args, config, engine, op, sql, conn, columns, rows, ret, open,
                  nconn, nengine, called, connected >>

\* columns = tuple(result.keys())
ExecKeys ==
  /\ pc = "exec_keys"
  /\ io' = io + 1
  /\ did' = [conn |-> conn, what |-> "keys"]
  /\ \/ /\ cursor.of \in open
        /\ columns' = Some(cursor.keys)
        /\ pc' = "exec_fetch"
        /\ UNCHANGED exc
     \/ \E e \in DriverFailures :
          /\ exc' = e
          /\ pc' = "exec_exit"
          /\ UNCHANGED columns
  /\ UNCHANGED << args, config, engine, op, sql, conn, cursor, rows, ret, open,
                  nconn, nengine, called, connected >>

ExecFetchReleased ==
  /\ pc = "exec_fetch"
  /\ io' = io + 1
  /\ did' = [conn |-> conn, what |-> "fetchall"]
  /\ open' = Release(open, conn)
  /\ \/ /\ rows' = Some(cursor.data)
        /\ pc' = "exec_exit"
        /\ UNCHANGED exc
     \/ \E e \in DriverFailures :
          /\ exc' = e
          /\ pc' = "exec_exit"
          /\ UNCHANGED rows
  /\ UNCHANGED << args, config, engine, op, sql, conn, cursor, columns, ret,
                  nconn, nengine, called, connected >>

\* rows = [tuple(row) for row in result.fetchall()]
ExecFetch ==
  /\ pc = "exec_fetch"
  /\ io' = io + 1
  /\ did' = [conn |-> conn, what |-> "fetchall"]
  /\ \/ /\ cursor.of \in open
        /\ rows' = Some(cursor.data)
        /\ pc' = "exec_exit"
        /\ UNCHANGED exc
     \/ \E e \in DriverFailures :
          /\ exc' = e
          /\ pc' = "exec_exit"
          /\ UNCHANGED rows
  /\ UNCHANGED << args, config, engine, op, sql, conn, cursor, columns, ret, open,
                  nconn, nengine, called, connected >>

\* the with block ends, normally or by a failure: the connection is released
ExecExit ==
  /\ pc = "exec_exit"
  /\ open' = Release(open, conn)
  /\ pc' = IF exc = NoExc THEN "exec_return" ELSE "exec_except"
  /\ UNCHANGED << args, did, config, engine, op, sql, conn, exc, cursor, columns, rows,
                  ret, nconn, nengine, io, called, connected >>

\* return QueryResult(rows, columns)
ExecReturn ==
  /\ pc = "exec_return"
  /\ Leave("execute", Returned(QueryResult(rows[1], columns[1])))
  /\ UNCHANGED << args, did, config, engine, op, sql, conn, exc, cursor, columns, rows,
                  open, nconn, nengine, io, called, connected >>

\* except (sqlite3.OperationalError, sqlalchemy_exc.OperationalError) as e
IsOperationalAny(e) == TRUE
IsOperational(e) == e.type \in {SqliteOperational, SaOperational}

\* ExecuteOutcome without its final `raise e`
ExecuteOutcomeSwallow(e, cfg) ==
  IF IsOperational(e)
    THEN LET error_msg == Strip(Lower(e.msg))
         IN  IF Contains(SyntaxPattern, error_msg)
               THEN Raised(SQLSyntaxError(e.msg))
             ELSE IF Contains(NoTablePattern, error_msg)
               THEN Raised(NoSuchTableError(cfg.dbname, ExtractTable(error_msg)))
             ELSE Returned(None)
    ELSE Raised(e)

\* ExecuteOutcome raising SQLSyntaxError(error_msg) in place of SQLSyntaxError(str(e))
ExecuteOutcomeLowered(e, cfg) ==
  IF IsOperational(e)
    THEN LET error_msg == Strip(Lower(e.msg))
         IN  IF Contains(SyntaxPattern, error_msg)
               THEN Raised(SQLSyntaxError(error_msg))
             ELSE IF Contains(NoTablePattern, error_msg)
               THEN Raised(NoSuchTableError(cfg.dbname, ExtractTable(error_msg)))
             ELSE Raised(e)
    ELSE Raised(e)

\* ExecuteOutcome testing 'no such table' before 'syntax error'
ExecuteOutcomeTableFirst(e, cfg) ==
  IF IsOperational(e)
    THEN LET error_msg == Strip(Lower(e.msg))
         IN  IF Contains(NoTablePattern, error_msg)
               THEN Raised(NoSuchTableError(cfg.dbname, ExtractTable(error_msg)))
             ELSE IF Contains(SyntaxPattern, error_msg)
               THEN Raised(SQLSyntaxError(e.msg))
             ELSE Raised(e)
    ELSE Raised(e)

\* the except clause of execute: what the caller gets when the driver raised e
ExecuteOutcome(e, cfg) ==
  IF IsOperational(e)
    THEN LET error_msg == Strip(Lower(e.msg))
         IN  IF Contains(SyntaxPattern, error_msg)
               THEN Raised(SQLSyntaxError(e.msg))
             ELSE IF Contains(NoTablePattern, error_msg)
               THEN Raised(NoSuchTableError(cfg.dbname, ExtractTable(error_msg)))
             ELSE Raised(e)
    ELSE Raised(e)

\* ExecuteOutcome, tabulated over the failures and the configurations
ExecuteOutcomes ==
  [e \in DriverFailures, cfg \in ConfigValues |-> ExecuteOutcome(e, cfg)] @@ << >>

\* ExecExcept dropping the handle when the statement failed
ExecExceptInvalidate ==
  /\ pc = "exec_except"
  /\ Leave("execute", ExecuteOutcomes[exc, config])
  /\ engine' = NoEngine
  /\ UNCHANGED << args, did, config, op, sql, conn, exc, cursor, columns, rows,
                  open, nconn, nengine, io, called, connected >>

\* ExecExcept opening a connection again when the failure is unrecognised
ExecExceptRetry ==
  /\ pc = "exec_except"
  /\ IF ExecuteOutcomes[exc, config] = Raised(exc)
       THEN pc' = "exec_open" /\ UNCHANGED ret
       ELSE Leave("execute", ExecuteOutcomes[exc, config])
  /\ UNCHANGED << args, did, config, engine, op, sql, conn, exc, cursor, columns, rows,
                  open, nconn, nengine, io, called, connected >>

ExecExcept ==
  /\ pc = "exec_except"
  /\ Leave("execute", ExecuteOutcomes[exc, config])
  /\ UNCHANGED << args, did, config, engine, op, sql, conn, exc, cursor, columns, rows,
                  open, nconn, nengine, io, called, connected >>

(***************************************************************************)
(* Database.commit and Database.rollback (src/source/database.py:105-129). *)
(* The two bodies differ only in the call made on the connection.          *)
(***************************************************************************)
CommitCall ==
  /\ pc = "idle" /\ nconn < MaxConns
  /\ Enter("commit", None)
  /\ IF NotEstablished(engine)
       THEN Leave("commit", Raised(ConnectionNotEstablishedError))
       ELSE pc' = "tx_open" /\ ret' = InProgress(op')
  /\ UNCHANGED << args, config, engine, open, nconn, nengine, called, connected >>

RollbackCall ==
  /\ pc = "idle" /\ nconn < MaxConns
  /\ Enter("rollback", None)
  /\ IF NotEstablished(engine)
       THEN Leave("rollback", Raised(ConnectionNotEstablishedError))
       ELSE pc' = "tx_open" /\ ret' = InProgress(op')
  /\ UNCHANGED << args, config, engine, open, nconn, nengine, called, connected >>

\* with self.engine.connect() as conn:   (no try around it)
TxOpen ==
  /\ pc = "tx_open"
  /\ \/ /\ OpenConn
        /\ pc' = "tx_do"
        /\ UNCHANGED << exc, ret >>
     \/ \E e \in DriverFailures :
          /\ exc' = e
          /\ io' = io + 1
          /\ Leave(op, Raised(e))
          /\ UNCHANGED << conn, open, nconn >>
  /\ UNCHANGED << args, did, config, engine, op, sql, cursor, columns, rows, nengine,
                  called, connected >>

\* conn.commit()  /  conn.rollback()
TxDo ==
  /\ pc = "tx_do"
  /\ io' = io + 1
  /\ did' = [conn |-> conn, what |-> op]
  /\ \/ UNCHANGED exc
     \/ \E e \in DriverFailures : exc' = e
  /\ pc' = "tx_exit"
  /\ UNCHANGED << args, config, engine, op, sql, conn, cursor, columns, rows, ret,
                  open, nconn, nengine, called, connected >>

\* the with block ends: the connection is released
TxExit ==
  /\ pc = "tx_exit"
  /\ open' = Release(open, conn)
  /\ pc' = "tx_done"
  /\ UNCHANGED << args, did, config, engine, op, sql, conn, exc, cursor, columns, rows,
                  ret, nconn, nengine, io, called, connected >>

TxOutcomeSwallow(e) == Returned(None)

\* commit and rollback have no except clause and no return statement
TxOutcome(e) == IF e = NoExc THEN Returned(None) ELSE Raised(e)

\* the method ends (None), or the failure leaves it
TxDone ==
  /\ pc = "tx_done"
  /\ Leave(op, TxOutcome(exc))
  /\ UNCHANGED << args, did, config, engine, op, sql, conn, exc, cursor, columns, rows,
                  open, nconn, nengine, io, called, connected >>

Next ==
  \/ ConnectCall \/ ConnectCreate \/ ConnectProbe \/ ConnectProbeExit
  \/ ConnectReturn \/ ConnectExcept
  \/ ExecuteCall \/ ExecOpen \/ ExecRun \/ ExecKeys \/ ExecFetch
  \/ ExecExit \/ ExecReturn \/ ExecExcept
  \/ CommitCall \/ RollbackCall \/ TxOpen \/ TxDo \/ TxExit \/ TxDone

Spec == Init /\ [][Next]_vars

(***************************************************************************)
(* The earlier revision of the class (src/src/database.py).  Its Config    *)
(* (src/src/structs.py) validates nothing, connect() checks the dialect    *)
(* itself and makes no probe, and the except clause of execute has its     *)
(* final `raise e` commented out.  Lines 77-85 and 96-120 of that file     *)
(* are the statements of execute, commit and rollback modelled above, so   *)
(* the revision shares those steps.                                        *)
(***************************************************************************)
\* any Config can be built: src/src/structs.py has no __post_init__
RevConfigs ==
  {c \in ConfigValues :
     /\ c.dbname # DbUnknown
     /\ c.dbtype \in {TypeSqlite, TypePostgresql, TypeOracle}
     /\ (c.host = None) = (c.port = None)
     /\ (c.host = None) = (c.credentials.user = None)}

InitRev == config \in RevConfigs /\ args = NoArgs /\ InitSession

\* if self.config.dbtype not in self.DATABASE_ENGINES: raise WrongConfigError
RevConnectCall ==
  /\ pc = "idle" /\ nengine < MaxEngines /\ nconn < MaxConns
  /\ Enter("connect", None)
  /\ called' = TRUE
  /\ IF config.dbtype \notin DOMAIN DATABASE_ENGINES
       THEN Leave("connect",
                  Raised(WrongConfigError(UnsupportedFmt \o TypeText(config.dbtype))))
       ELSE pc' = "rev_connect_create" /\ ret' = InProgress("connect")
  /\ UNCHANGED << args, config, engine, open, nconn, nengine, connected >>

\* self.engine = create_engine(connection_string), and the method ends
RevConnectCreate ==
  /\ pc = "rev_connect_create"
  /\ io' = io + 1
  /\ \/ /\ engine' = AssignEngine(engine,
                        [id |-> nengine + 1, url |-> ConnectionString(config)])
        /\ nengine' = nengine + 1
        /\ connected' = TRUE
        /\ UNCHANGED exc
        /\ Leave("connect", Returned(None))
     \/ \E e \in CreateFailures :
          /\ exc' = e
          /\ UNCHANGED << engine, nengine, connected >>
          /\ Leave("connect", Raised(e))
  /\ UNCHANGED << args, did, config, op, sql, conn, cursor, columns, rows, open, nconn,
                  called >>

\* the except clause of the revision's execute: after the two tests the
\* clause ends and the method returns None
RevExecuteOutcome(e, cfg) ==
  IF IsOperational(e)
    THEN LET error_msg == Strip(Lower(e.msg))
         IN  IF Contains(SyntaxPattern, error_msg)
               THEN Raised(SQLSyntaxError(e.msg))
             ELSE IF Contains(NoTablePattern, error_msg)
               THEN Raised(NoSuchTableError(cfg.dbname, ExtractTable(error_msg)))
             ELSE Returned(None)
    ELSE Raised(e)

RevExecExcept ==
  /\ pc = "exec_except"
  /\ Leave("execute", RevExecuteOutcome(exc, config))
  /\ UNCHANGED << args, did, config, engine, op, sql, conn, exc, cursor, columns, rows,
                  open, nconn, nengine, io, called, connected >>

NextRev ==
  \/ RevConnectCall \/ RevConnectCreate
  \/ ExecuteCall \/ ExecOpen \/ ExecRun \/ ExecKeys \/ ExecFetch
  \/ ExecExit \/ ExecReturn \/ RevExecExcept
  \/ CommitCall \/ RollbackCall \/ TxOpen \/ TxDo \/ TxExit \/ TxDone

SpecRev == InitRev /\ [][NextRev]_vars

(***************************************************************************)
(* Building the values: Credentials(user, password), then Config(dbtype,   *)
(* dbname, credentials, host, port) (src/source/structs.py).  A caller may *)
(* pass any Python value for user and password, so here an argument is a   *)
(* value together with its type.                                           *)
(***************************************************************************)
PyNone    == [t |-> "NoneType", v |-> << >>]
PyStr(s)  == [t |-> "str", v |-> s]
PyInt(n)  == [t |-> "int", v |-> IntText(n)]

\* the Optional[str] a checked argument is
ToOpt(a) == IF a.t = "NoneType" THEN None ELSE Some(a.v)

\* src/source/structs.py:32
BadCredentialsMsg ==
  <<"U","s","e","r"," ","a","n","d"," ","p","a","s","s","w","o","r","d"," ","s","h","o","u","l","d"," ","b","e"," ","s","t","r","i","n","g","s",".">>

\* issubtype(type(x), Optional[str])
IsOptionalStr(a) == a.t \in {"str", "NoneType"}

\* CredentialsPostInit with `and` in place of `or`
CredentialsPostInitBoth(user, password) ==
  IF ~IsOptionalStr(user) /\ ~IsOptionalStr(password)
    THEN Raised(WrongConfigError(BadCredentialsMsg))
    ELSE Returned(None)

\* Credentials.__post_init__: returns, or raises WrongConfigError
CredentialsPostInit(user, password) ==
  IF ~IsOptionalStr(user) \/ ~IsOptionalStr(password)
    THEN Raised(WrongConfigError(BadCredentialsMsg))
    ELSE Returned(None)

\* the arguments a caller may give
CtorArgs ==
  [user     : {PyNone, PyStr(UserPostgres), PyInt(213)},
   password : {PyNone, PyStr(PassWord), PyInt(421)},
   dbtype   : SupportedTypes \cup UnsupportedTypes,
   dbname   : {DbChinook, DbRental, DbUnknown},
   host     : {None, Some(HostLocal)},
   port     : {None, Some(Port)}]

\* the Config the arguments describe
ConfigOf(a) ==
  [dbtype      |-> a.dbtype,
   dbname      |-> a.dbname,
   credentials |-> [user |-> ToOpt(a.user), password |-> ToOpt(a.password)],
   host        |-> a.host,
   port        |-> a.port]

\* no Config built yet
NoConfig ==
  [dbtype |-> << >>, dbname |-> << >>,
   credentials |-> [user |-> None, password |-> None],
   host |-> None, port |-> None]

\* the calls of os.path.exists that Config.__post_init__ makes: the second
\* `if` is reached when the first did not raise, and `and` looks at the
\* store only for sqlite
ExistsCalls(cfg) ==
  IF cfg.dbtype \in SupportedTypes /\ cfg.dbtype = TypeSqlite THEN 1 ELSE 0

InitCfg ==
  /\ args \in CtorArgs
  /\ config = NoConfig
  /\ pc = "credentials_new"
  /\ engine = NoEngine /\ op = "none" /\ sql = None /\ conn = NoConn
  /\ exc = NoExc /\ cursor = NoCursor /\ columns = None /\ rows = None
  /\ ret = [op |-> "none", kind |-> "none", val |-> None]
  /\ open = {} /\ nconn = 0 /\ nengine = 0 /\ io = 0
  /\ called = FALSE /\ connected = FALSE /\ did = NoUse

\* Credentials(user=..., password=...)
CredentialsNew ==
  /\ pc = "credentials_new"
  /\ LET outcome == CredentialsPostInit(args.user, args.password)
     IN  /\ ret' = [op |-> "Credentials", kind |-> outcome.kind,
                    val |-> outcome.val]
         /\ pc' = IF outcome.kind = "raise" THEN "done" ELSE "config_new"
  /\ UNCHANGED << args, did, config, engine, op, sql, conn, exc, cursor,
                  columns, rows, open, nconn, nengine, io, called,
                  connected >>

\* Config(dbtype=..., dbname=..., credentials=..., host=..., port=...)
ConfigNew ==
  /\ pc = "config_new"
  /\ LET cfg     == ConfigOf(args)
         outcome == ConfigPostInit(cfg)
     IN  /\ ret' = [op |-> "Config", kind |-> outcome.kind,
                    val |-> outcome.val]
         /\ config' = IF outcome.kind = "return" THEN cfg ELSE config
         /\ io' = io + ExistsCalls(cfg)
  /\ pc' = "done"
  /\ UNCHANGED << args, did, engine, op, sql, conn, exc, cursor, columns,
                  rows, open, nconn, nengine, called, connected >>

NextCfg == CredentialsNew \/ ConfigNew

SpecCfg == InitCfg /\ [][NextCfg]_vars

(***************************************************************************)
(* The session with its calls running to their end: a call that has begun  *)
(* takes its next step, every driver call it waits on returning or raising. *)
(* Whether and when the caller makes a further call is left open.           *)
(***************************************************************************)
Step ==
  \/ ConnectCreate \/ ConnectProbe \/ ConnectProbeExit
  \/ ConnectReturn \/ ConnectExcept
  \/ ExecOpen \/ ExecRun \/ ExecKeys \/ ExecFetch
  \/ ExecExit \/ ExecReturn \/ ExecExcept
  \/ TxOpen \/ TxDo \/ TxExit \/ TxDone

SpecLive == Init /\ [][Next]_vars /\ WF_vars(Step)

(***************************************************************************)
(* The claims.                                                             *)
(***************************************************************************)
Operations == {"execute", "commit", "rollback"}

\* the failure the driver raised carries `pat`, whatever the letter case
Carries(pat, e) == Contains(pat, Lower(e.msg))

\* C1: on a session whose connect() was never called, execute, commit and
\* rollback each end at once with ConnectionNotEstablishedError, having made
\* no call to the driver (no engine built, no connection opened) and having
\* left the handle absent.
C1_NotConnectedWithoutIO ==
  (~called /\ ret.op \in Operations) =>
     /\ pc = "idle"
     /\ ret.kind = "raise"
     /\ ret.val = ConnectionNotEstablishedError
     /\ io = 0
     /\ nconn = 0 /\ nengine = 0 /\ open = {}
     /\ engine = NoEngine

C1_Witness ==
  /\ ~called /\ pc = "idle"
  /\ ret.op = "rollback" /\ ret.kind = "raise"
  /\ config.dbtype = TypePostgresql

\* C2: when connect() has built the engine and its probe has opened a
\* connection, connect() returns normally with the handle set; and once a
\* connect() has returned normally the handle is present and no operation
\* ends with ConnectionNotEstablishedError.
C2_ConnectEstablishes ==
  /\ (pc = "idle" /\ ret.op = "connect" /\ conn # NoConn) =>
        (ret.kind = "return" /\ engine # NoEngine /\ connected)
  /\ connected =>
        /\ engine # NoEngine
        /\ ~(ret.kind = "raise" /\ ret.val = ConnectionNotEstablishedError)

C2_Witness ==
  /\ pc = "idle" /\ connected
  /\ ret.op = "execute" /\ ret.kind = "return"
  /\ nengine = 1 /\ engine.id = 1 /\ nconn = 2

\* C3 (as claimed): after connect() has failed with WrongPasswordError the
\* handle is absent.
C3_Original ==
  (pc = "idle" /\ ret.op = "connect" /\ ret.kind = "raise"
     /\ ret.val.type = "WrongPasswordError") =>
        engine = NoEngine

\* C4: when the probe raised the driver library's OperationalError with a
\* text that carries 'password authentication failed' in any letter case,
\* connect() fails with WrongPasswordError made from the configured user.
C4_AuthFailureIsWrongPassword ==
  (pc = "idle" /\ ret.op = "connect" /\ exc.type = SaOperational
     /\ Carries(AuthPattern, exc)) =>
        /\ ret.kind = "raise"
        /\ ret.val = WrongPasswordError(config.credentials.user)

C4_Witness ==
  /\ pc = "idle" /\ ret.op = "connect"
  /\ exc = [type |-> SaOperational, msg |-> MsgAuthUpper]
  /\ ret.kind = "raise" /\ ret.val.type = "WrongPasswordError"
  /\ config.credentials.user = Some(UserPostgres)

\* C5 (as claimed): when the probe raised a failure that carries no
\* authentication text, connect() raises that same failure.
C5_Original ==
  (pc = "idle" /\ ret.op = "connect" /\ exc \in DriverFailures
     /\ ~Carries(AuthPattern, exc)) =>
        (ret.kind = "raise" /\ ret.val = exc)

\* C6: when the driver raised a failure during execute, execute raises; and
\* an operational failure whose text carries neither 'syntax error' nor
\* 'no such table' is raised as it is.
C6_UnclassifiedReraised ==
  (pc = "idle" /\ ret.op = "execute" /\ exc # NoExc) =>
     /\ ret.kind = "raise"
     /\ (/\ exc.type \in {SqliteOperational, SaOperational}
         /\ ~Carries(SyntaxPattern, exc)
         /\ ~Carries(NoTablePattern, exc)) => ret.val = exc

C6_Witness ==
  /\ pc = "idle" /\ ret.op = "execute" /\ connected
  /\ exc = [type |-> SaOperational, msg |-> MsgOther]
  /\ ret.kind = "raise" /\ ret.val = exc

\* C7 (as claimed, of the revision in src/src): an operational failure
\* whose text carries neither pattern leaves execute as a raised failure.
C7_Original ==
  (pc = "idle" /\ ret.op = "execute" /\ exc # NoExc
     /\ exc.type \in {SqliteOperational, SaOperational}
     /\ ~Carries(SyntaxPattern, exc)
     /\ ~Carries(NoTablePattern, exc)) =>
        (ret.kind = "raise" /\ ret.val = exc)

\* C8: a transient connection is open only inside the with block of the
\* call that opened it: none is open between calls, nor at the point where
\* a call returns or handles or raises the failure.
C8_TransientReleased ==
  /\ open \subseteq {conn}
  /\ pc \in {"idle", "connect_return", "connect_except", "exec_return",
             "exec_except", "tx_done"} => open = {}

C8_Witness ==
  /\ pc = "idle" /\ ret.op = "execute" /\ ret.kind = "raise"
  /\ ret.val.type = "SQLSyntaxError"
  /\ conn # NoConn /\ open = {}

\* C9 (as claimed): between calls the handle is absent as long as no
\* connect() has returned normally.
C9_Original ==
  (pc = "idle" /\ ~connected) => engine = NoEngine

\* C10: when the driver raised an operational failure during execute whose
\* text carries 'syntax error' in any letter case, execute fails with
\* SQLSyntaxError made from the driver's text as it was.
C10_SyntaxErrorKeepsText ==
  (pc = "idle" /\ ret.op = "execute"
     /\ exc.type \in {SqliteOperational, SaOperational}
     /\ Carries(SyntaxPattern, exc)) =>
        /\ ret.kind = "raise"
        /\ ret.val = SQLSyntaxError(exc.msg)

C10_Witness ==
  /\ pc = "idle" /\ ret.op = "execute"
  /\ exc = [type |-> SaOperational, msg |-> MsgSyntaxUpper]
  /\ ret.val = [type |-> "SQLSyntaxError", msg |-> MsgSyntaxUpper]
  /\ Lower(MsgSyntaxUpper) # MsgSyntaxUpper


\* the table each driver text names after 'no such table: ', as execute
\* reports it: in lower case, up to the end of the line
NameCustomers ==
  <<"c","u","s","t","o","m","e","r","s">>
NameT1 ==
  <<"t","1"," ">>
NameEleves ==
  <<"é","l","è","v","e","s">>
NamedTable(msg) ==
  CASE msg = MsgNoTable       -> NameCustomers
    [] msg = MsgNoTableSql    -> NameT1
    [] msg = MsgNoTableAccent -> NameEleves
    [] OTHER               -> << >>

\* C11: on a sqlite session, when the driver raised an operational failure
\* during execute whose text carries 'no such table' (any letter case) and
\* not 'syntax error', execute fails with NoSuchTableError made from the
\* configured database name and the table named after 'no such table: ';
\* when the text names no table the error is NoSuchTableError with an empty
\* table name.
C11_NoSuchTableNamesTable ==
  (pc = "idle" /\ ret.op = "execute" /\ config.dbtype = TypeSqlite
     /\ exc.type \in {SqliteOperational, SaOperational}
     /\ Carries(NoTablePattern, exc)
     /\ ~Carries(SyntaxPattern, exc)) =>
        /\ ret.kind = "raise"
        /\ ret.val.type = "NoSuchTableError"
        /\ ret.val = NoSuchTableError(config.dbname, NamedTable(exc.msg))

C11_Witness ==
  /\ pc = "idle" /\ ret.op = "execute" /\ config.dbtype = TypeSqlite
  /\ exc = [type |-> SaOperational, msg |-> MsgNoTable]
  /\ ret.kind = "raise"
  /\ ret.val = NoSuchTableError(DbChinook, NameCustomers)


\* C12 (as claimed): on a postgresql, mysql or mssql session a failure raised
\* during execute whose text carries 'no such table' is raised as it is.
C12_Original ==
  (pc = "idle" /\ ret.op = "execute" /\ config.dbtype # TypeSqlite
     /\ exc # NoExc /\ Carries(NoTablePattern, exc)
     /\ ~Carries(SyntaxPattern, exc)) =>
        (ret.kind = "raise" /\ ret.val = exc)

NetworkTypes == {TypePostgresql, TypeMysql, TypeMssql}

\* C13 (as claimed): building a Config for postgresql, mysql or mssql with
\* credentials, host or port absent fails with WrongConfigError.
C13_Original ==
  (pc = "done" /\ ret.op = "Config" /\ args.dbtype \in NetworkTypes
     /\ (\/ (args.user = PyNone /\ args.password = PyNone)
         \/ args.host = None
         \/ args.port = None)) =>
        (ret.kind = "raise" /\ ret.val.type = "WrongConfigError")


\* a field the network descriptor embeds is absent
AnyAbsent(cfg) ==
  \/ cfg.credentials.user = None
  \/ cfg.credentials.password = None
  \/ cfg.host = None
  \/ cfg.port = None

\* C14 (as claimed): on a postgresql, mysql or mssql session whose user,
\* password, host or port is absent, connect() fails with WrongConfigError
\* and no engine is ever built.
C14_Original ==
  (config.dbtype \in NetworkTypes /\ AnyAbsent(config)) =>
     /\ engine = NoEngine
     /\ (pc = "idle" /\ ret.op = "connect") =>
           (ret.kind = "raise" /\ ret.val.type = "WrongConfigError")


\* C15: building a Config whose dbtype is none of sqlite, postgresql, mysql,
\* mssql fails with WrongConfigError('Unsupported dbtype: ...'), whatever
\* the dbname, credentials, host and port; the store is not looked at
\* (the dbtype test comes first) and no Config comes to exist.
C15_UnsupportedTypeRejected ==
  (pc = "done" /\ ret.op = "Config"
     /\ args.dbtype \notin {TypeSqlite, TypePostgresql, TypeMysql, TypeMssql}) =>
        /\ ret.kind = "raise"
        /\ ret.val = WrongConfigError(UnsupportedFmt \o TypeText(args.dbtype))
        /\ io = 0
        /\ config = NoConfig

C15_Witness ==
  /\ pc = "done" /\ ret.op = "Config" /\ ret.kind = "raise"
  /\ args.dbtype = TypeOracle /\ args.dbname = DbUnknown
  /\ args.host = Some(HostLocal) /\ args.user = PyStr(UserPostgres)

\* C16: building a sqlite Config fails with WrongConfigError when the store
\* named by dbname does not exist, and succeeds when it exists, whatever
\* the host, port and credentials (absent included).
C16_SqliteStoreMustExist ==
  (pc = "done" /\ ret.op = "Config" /\ args.dbtype = TypeSqlite) =>
     IF args.dbname = DbChinook
       THEN ret.kind = "return" /\ config = ConfigOf(args)
       ELSE /\ ret.kind = "raise"
            /\ ret.val = WrongConfigError(NotExistFmt1 \o args.dbname
                                            \o NotExistFmt2)
            /\ config = NoConfig

C16_Witness ==
  /\ pc = "done" /\ ret.op = "Config" /\ ret.kind = "raise"
  /\ args.dbtype = TypeSqlite /\ args.dbname = DbUnknown
  /\ args.host = None /\ args.port = None /\ args.user = PyNone

\* C17: Credentials(user, password) is built exactly when each of user and
\* password is None or a str; otherwise it fails with WrongConfigError.
C17_CredentialsAreText ==
  (pc # "credentials_new" /\ ret.op = "Credentials") =>
     /\ (ret.kind = "return") <=>
           (/\ args.user.t \in {"str", "NoneType"}
            /\ args.password.t \in {"str", "NoneType"})
     /\ ret.kind # "return" =>
           (ret.kind = "raise" /\ ret.val = WrongConfigError(BadCredentialsMsg))

C17_Witness ==
  /\ pc = "done" /\ ret.op = "Credentials" /\ ret.kind = "raise"
  /\ args.user = PyStr(UserPostgres) /\ args.password.t = "int"


\* C18 (as claimed): on a sqlite session whose connect() has returned,
\* commit() and rollback() raise ConnectionNotEstablishedError.
C18_Original ==
  (pc = "idle" /\ connected /\ config.dbtype = TypeSqlite
     /\ ret.op \in {"commit", "rollback"}) =>
        (ret.kind = "raise" /\ ret.val = ConnectionNotEstablishedError)

\* C19: in a successful execute the column names and the complete row
\* sequence are captured while the transient connection is still open, the
\* last use of the driver's cursor (fetchall) precedes the release, and the
\* QueryResult returned is built from the captured values only.
C19_CaptureBeforeRelease ==
  /\ pc \in {"exec_keys", "exec_fetch"} =>
        conn \in open /\ cursor.of = conn
  /\ pc = "exec_fetch" => columns = Some(cursor.keys)
  /\ (pc = "exec_exit" /\ exc = NoExc) =>
        /\ conn \in open
        /\ columns = Some(cursor.keys) /\ rows = Some(cursor.data)
        /\ did = [conn |-> conn, what |-> "fetchall"]
  /\ pc = "exec_return" =>
        /\ conn \notin open
        /\ columns = Some(cursor.keys) /\ rows = Some(cursor.data)
        /\ did = [conn |-> conn, what |-> "fetchall"]
  /\ (pc = "idle" /\ ret.op = "execute" /\ ret.kind = "return") =>
        /\ conn \notin open
        /\ columns = Some(cursor.keys) /\ rows = Some(cursor.data)
        /\ ret.val = QueryResult(rows[1], columns[1])
        /\ did = [conn |-> conn, what |-> "fetchall"]

C19_Witness ==
  /\ pc = "idle" /\ ret.op = "execute" /\ ret.kind = "return"
  /\ conn \notin open /\ cursor.of = conn
  /\ rows = Some(cursor.data) /\ Len(cursor.data) > 0
  /\ ret.val = QueryResult(cursor.data, cursor.keys)


\* C20: on a Connected session commit() and rollback() open one transient
\* connection, issue the commit or rollback on it and release it; they
\* return None when the driver does not fail, the driver's failure reaches
\* the caller as raised otherwise, and the engine stays in place throughout.
C20_TransactionControl ==
  /\ pc \in {"tx_open", "tx_do", "tx_exit", "tx_done"} =>
        engine # NoEngine /\ op \in {"commit", "rollback"}
  /\ pc = "tx_do" => open = {conn}
  /\ pc = "tx_exit" => open = {conn} /\ did = [conn |-> conn, what |-> op]
  /\ pc = "tx_done" => open = {} /\ did = [conn |-> conn, what |-> op]
  /\ (pc = "idle" /\ ret.op \in {"commit", "rollback"} /\ engine # NoEngine) =>
        /\ open = {}
        /\ IF exc = NoExc
             THEN /\ ret.kind = "return" /\ ret.val = None
                  /\ did = [conn |-> conn, what |-> ret.op]
             ELSE /\ ret.kind = "raise" /\ ret.val = exc
                  /\ exc \in DriverFailures

C20_Witness ==
  /\ pc = "idle" /\ ret.op = "commit" /\ engine # NoEngine
  /\ ret.kind = "raise" /\ ret.val = exc /\ exc \in DriverFailures
  /\ did = [conn |-> conn, what |-> "commit"] /\ open = {}


\* C21: a session holds a configuration that construction has validated
\* (supported dialect, existing sqlite store), and no call on the session,
\* connect() first of all, ever ends with WrongConfigError: what connect()
\* raises is WrongPasswordError or the failure the driver raised.
C21_NoConfigErrorAtConnect ==
  /\ ConfigPostInit(config).kind = "return"
  /\ exc.type # "WrongConfigError"
  /\ ret.kind = "raise" => ret.val.type # "WrongConfigError"
  /\ (pc = "idle" /\ ret.op = "connect" /\ ret.kind = "raise") =>
        \/ ret.val = WrongPasswordError(config.credentials.user)
        \/ ret.val = exc /\ exc \in DriverFailures \cup CreateFailures

C21_Witness ==
  /\ pc = "idle" /\ ret.op = "connect" /\ ret.kind = "raise"
  /\ ret.val \in CreateFailures
  /\ config.dbtype = TypeSqlite /\ config.dbname \in ExistingStores
  /\ io = 1 /\ engine = NoEngine


\* C22: connect() is accepted on a session that is already Connected, and
\* whenever a connect() whose probe succeeded returns, the first or a later
\* one, the session is in the same state: the handle is the engine built
\* last from the descriptor the configuration resolves to, the probe
\* connection is released, and the caller got None after two driver calls.
C22_ReconnectSameState ==
  (pc = "idle" /\ ret.op = "connect" /\ ret.kind = "return" /\ exc = NoExc) =>
     /\ engine = [id |-> nengine, url |-> ConnectionString(config)]
     /\ connected
     /\ open = {}
     /\ ret.val = None
     /\ io = 2 /\ conn = nconn

C22_Witness ==
  /\ pc = "idle" /\ ret.op = "connect" /\ ret.kind = "return" /\ exc = NoExc
  /\ nengine = 2 /\ engine.id = 2
  /\ engine.url = ConnectionString(config)
  /\ config.dbtype = TypePostgresql


\* C23: when the driver raised, during execute, a failure that is neither
\* sqlite3.OperationalError nor the driver library's OperationalError,
\* execute raises that very failure, whatever its text carries; it is
\* never made into SQLSyntaxError or NoSuchTableError.
C23_NonOperationalUnchanged ==
  (pc = "idle" /\ ret.op = "execute" /\ exc # NoExc
     /\ exc.type \notin {SqliteOperational, SaOperational}) =>
        /\ ret.kind = "raise"
        /\ ret.val = exc
        /\ ret.val.type \notin {"SQLSyntaxError", "NoSuchTableError"}

C23_Witness ==
  /\ pc = "idle" /\ ret.op = "execute"
  /\ exc = [type |-> SaProgramming, msg |-> MsgNoTable]
  /\ Carries(NoTablePattern, exc)
  /\ ret.kind = "raise" /\ ret.val = exc

\* C26: the classification of execute tests 'syntax error' first: an
\* operational failure whose text carries both 'syntax error' and
\* 'no such table' is raised as SQLSyntaxError; and every operational
\* failure is raised as exactly one of SQLSyntaxError (text carries
\* 'syntax error'), NoSuchTableError (carries 'no such table' only) and
\* the failure itself (carries neither).
C26_SyntaxTestedFirst ==
  (pc = "idle" /\ ret.op = "execute"
     /\ exc.type \in {SqliteOperational, SaOperational}) =>
        /\ ret.kind = "raise"
        /\ ret.val.type \in {"SQLSyntaxError", "NoSuchTableError", exc.type}
        /\ (ret.val.type = "SQLSyntaxError") = Carries(SyntaxPattern, exc)
        /\ (ret.val.type = "NoSuchTableError") =
              (Carries(NoTablePattern, exc) /\ ~Carries(SyntaxPattern, exc))
        /\ (ret.val.type = exc.type) =
              (~Carries(NoTablePattern, exc) /\ ~Carries(SyntaxPattern, exc))
        /\ (ret.val.type = exc.type) => ret.val = exc

C26_Witness ==
  /\ pc = "idle" /\ ret.op = "execute"
  /\ exc = [type |-> SqliteOperational, msg |-> MsgBoth]
  /\ Carries(SyntaxPattern, exc) /\ Carries(NoTablePattern, exc)
  /\ ret.kind = "raise" /\ ret.val = SQLSyntaxError(MsgBoth)


\* C24: at most one transient connection is open at any time; every
\* connection a call takes is a new one, opened by that call before it has
\* used any (so never one an earlier execute, commit or rollback used);
\* and every statement, fetch, commit or rollback is issued on the open
\* connection of the call in progress.
C24_OneFreshConnectionPerCall ==
  [][ /\ Cardinality(open') <= 1
      /\ (conn' # conn /\ conn' # NoConn) =>
            /\ conn' = nconn + 1 /\ nconn' = nconn + 1
            /\ conn = NoConn /\ did = NoUse /\ open = {}
            /\ \A c \in 1..nconn : c # conn'
      /\ (did' # did /\ did' # NoUse) =>
            /\ did'.conn = conn /\ conn' = conn
            /\ conn \in open /\ conn = nconn
            /\ did'.what \in {"commit", "rollback"} =>
                  (did = NoUse /\ did'.what = op)
    ]_vars

C24_Witness ==
  /\ pc = "tx_exit" /\ op = "commit"
  /\ did = [conn |-> 3, what |-> "commit"]
  /\ open = {3} /\ nconn = 3
  /\ ret.op = "commit" /\ connected


\* C25: no step of execute, commit or rollback changes the engine handle or
\* the configuration, whether the call returns or raises; the handle is
\* written only by connect(), where it assigns the engine it has built.
\* After an execute that failed on a Connected session the handle is as it
\* was and a further execute is accepted.
C25_OperationsKeepHandle ==
  [][ /\ config' = config
      /\ op' \in Operations => engine' = engine
      /\ engine' # engine => (op = "connect" /\ pc = "connect_create")
      /\ (pc' = "idle" /\ ret'.op = "execute" /\ ret'.kind = "raise"
            /\ engine # NoEngine /\ nconn' < MaxConns) =>
              (engine' = engine /\ (ENABLED ExecuteCall)')
    ]_vars

C25_Witness ==
  /\ pc = "idle" /\ ret.op = "execute" /\ ret.kind = "raise"
  /\ ret.val.type = "NoSuchTableError"
  /\ engine = [id |-> 1, url |-> ConnectionString(config)]
  /\ nconn = 2 /\ ENABLED ExecuteCall


\* the steps a call at this position has still to take, at most
StepsLeft(at) ==
  CASE at = "idle"               -> 0
    [] at = "connect_create"     -> 4
    [] at = "connect_probe"      -> 3
    [] at = "connect_probe_exit" -> 2
    [] at = "connect_return"     -> 1
    [] at = "connect_except"     -> 1
    [] at = "exec_open"          -> 6
    [] at = "exec_run"           -> 5
    [] at = "exec_keys"          -> 4
    [] at = "exec_fetch"         -> 3
    [] at = "exec_exit"          -> 2
    [] at = "exec_return"        -> 1
    [] at = "exec_except"        -> 1
    [] at = "tx_open"            -> 4
    [] at = "tx_do"              -> 3
    [] at = "tx_exit"            -> 2
    [] at = "tx_done"            -> 1

\* C27: every driver call returning or raising, a call of connect,
\* execute, commit or rollback that has begun comes to its end, where its
\* caller has a return or a raise; a transient connection that is open
\* gets released; and no step of a call leads back to an earlier one: each
\* step leaves fewer steps to take, and a call makes at most four driver
\* calls.
C27_CallsComplete ==
  /\ (pc # "idle") ~> (pc = "idle" /\ ret.kind \in {"return", "raise"})
  /\ (open # {}) ~> (open = {})
  /\ [][ (pc # "idle" /\ pc' # pc) =>
            (StepsLeft(pc') < StepsLeft(pc) /\ io' <= 4) ]_vars

C27_Witness ==
  /\ pc = "idle" /\ ret.op = "execute" /\ ret.kind = "raise"
  /\ ret.val = exc /\ exc = [type |-> SaOperational, msg |-> MsgOther]
  /\ io = 4 /\ conn = 3 /\ open = {}

=============================================================================
